---- MODULE Spec2Model ----
(***************************************************************************)
(* aws-console-link: the pipeline of src/main.rs.                          *)
(*                                                                         *)
(*   run: get_aws_credentials -> get_signin_token -> get_console_url       *)
(*        -> open::that                                                    *)
(*                                                                         *)
(* Text that the program takes apart or puts together character by         *)
(* character (region, signin token, URLs) is a sequence of one-character   *)
(* strings.  Text that is only compared or copied (profile names,          *)
(* credential values, error messages) is a TLA+ string.                    *)
(***************************************************************************)
EXTENDS Integers, Sequences, FiniteSets, TLC

VARIABLES pc, env, profile_name, region, credentials, signin_token,
          console_url, error, env_reads, requests, response, opened,
          launched, stages

vars == <<pc, env, profile_name, region, credentials, signin_token,
          console_url, error, env_reads, requests, response, opened,
          launched, stages>>

----------------------------------------------------------------------------
(* Bounds *)

\* longest JSON object / array the federation endpoint answers with
MaxBodyFields == 2

\* longest signin token handed to the URL builder on its own
MaxTokenLen == 2

----------------------------------------------------------------------------
(* Option and Result *)

None == <<>>

Some(x) == <<x>>

ResOk(v) == [ok |-> TRUE, val |-> v]

ResErr(e) == [ok |-> FALSE, err |-> e]

\* anyhow!(msg): an error without an underlying cause
Anyhow(msg) == [msg |-> msg, source |-> None]

\* result.context(msg): the failure becomes the source of a new error
Context(msg, cause) == [msg |-> msg, source |-> Some(cause)]

----------------------------------------------------------------------------
(* Characters *)

\* the printable ASCII characters, code 32 first (code 96, the grave accent,
\* is spelled out: a string cannot hold it)
Ascii == <<" ", "!", "\"", "#", "$", "%", "&", "'", "(", ")", "*", "+", ",", "-", ".", "/", "0", "1", "2", "3", "4", "5", "6", "7", "8", "9", ":", ";", "<", "=", ">", "?", "@", "A", "B", "C", "D", "E", "F", "G", "H", "I", "J", "K", "L", "M", "N", "O", "P", "Q", "R", "S", "T", "U", "V", "W", "X", "Y", "Z", "[", "\\", "]", "^", "_", "grave", "a", "b", "c", "d", "e", "f", "g", "h", "i", "j", "k", "l", "m", "n", "o", "p", "q", "r", "s", "t", "u", "v", "w", "x", "y", "z", "{", "|", "}", "~">>

\* the byte of an ASCII character
ByteOf(c) == 31 + CHOOSE i \in 1..Len(Ascii) : Ascii[i] = c

HexDigits == <<"0", "1", "2", "3", "4", "5", "6", "7", "8", "9", "A", "B", "C", "D", "E", "F">>

Digits == {"0", "1", "2", "3", "4", "5", "6", "7", "8", "9"}

UpperCase == {"A", "B", "C", "D", "E", "F", "G", "H", "I", "J", "K", "L", "M", "N", "O", "P", "Q", "R", "S", "T", "U", "V", "W", "X", "Y", "Z"}

LowerCase == {"a", "b", "c", "d", "e", "f", "g", "h", "i", "j", "k", "l", "m", "n", "o", "p", "q", "r", "s", "t", "u", "v", "w", "x", "y", "z"}

\* the bytes application/x-www-form-urlencoded leaves as they are
ByteSerializedUnchanged(c) == c \in Digits \cup UpperCase \cup LowerCase \cup {"*", "-", ".", "_"}

PercentEncodeByte(c) == <<"%", HexDigits[(ByteOf(c) \div 16) + 1], HexDigits[(ByteOf(c) % 16) + 1]>>

\* ByteSerializeChar without the encoding: the value is pasted as it is
ByteSerializeChar_raw(c) == <<c>>

\* one byte of a query key or value
ByteSerializeChar(c) ==
    IF ByteSerializedUnchanged(c) THEN <<c>>
    ELSE IF c = " " THEN <<"+">>
    ELSE PercentEncodeByte(c)

RECURSIVE ByteSerialize(_)
\* a query key or value, as extend_pairs writes it
ByteSerialize(s) ==
    IF s = <<>> THEN <<>>
    ELSE ByteSerializeChar(Head(s)) \o ByteSerialize(Tail(s))

RECURSIVE ExtendPairs(_, _)
\* key=value joined by "&", the first pair introduced by "?"
ExtendPairs(first, pairs) ==
    IF pairs = <<>> THEN <<>>
    ELSE (IF first THEN <<"?">> ELSE <<"&">>)
         \o ByteSerialize(Head(pairs)[1]) \o <<"=">> \o ByteSerialize(Head(pairs)[2])
         \o ExtendPairs(FALSE, Tail(pairs))

\* Url::parse_with_params on a base without a query, then Url -> String
ParseWithParams(base, pairs) == base \o ExtendPairs(TRUE, pairs)

----------------------------------------------------------------------------
(* URL Builder *)

FederationUrl == <<"h", "t", "t", "p", "s", ":", "/", "/", "s", "i", "g", "n", "i", "n", ".", "a", "w", "s", ".", "a", "m", "a", "z", "o", "n", ".", "c", "o", "m", "/", "f", "e", "d", "e", "r", "a", "t", "i", "o", "n">>

Https == <<"h", "t", "t", "p", "s", ":", "/", "/">>

ConsoleSuffix == <<".", "c", "o", "n", "s", "o", "l", "e", ".", "a", "w", "s", ".", "a", "m", "a", "z", "o", "n", ".", "c", "o", "m", "/", "c", "o", "n", "s", "o", "l", "e", "/", "h", "o", "m", "e", "?", "r", "e", "g", "i", "o", "n", "=">>

SigninSuffix == <<".", "s", "i", "g", "n", "i", "n", ".", "a", "w", "s", ".", "a", "m", "a", "z", "o", "n", ".", "c", "o", "m", "/", "f", "e", "d", "e", "r", "a", "t", "i", "o", "n">>

KeyAction == <<"A", "c", "t", "i", "o", "n">>

ValLogin == <<"l", "o", "g", "i", "n">>

KeyIssuer == <<"I", "s", "s", "u", "e", "r">>

ValIssuer == <<"w", "o", "j", "t", "e", "k", "s", "-", "a", "p", "p">>

KeyDestination == <<"D", "e", "s", "t", "i", "n", "a", "t", "i", "o", "n">>

KeySigninToken == <<"S", "i", "g", "n", "i", "n", "T", "o", "k", "e", "n">>

\* format!("https://{}.console.aws.amazon.com/console/home?region={}", region, region)
destination_url(r) == Https \o r \o ConsoleSuffix \o r

\* the base URL is a constant that always parses, so the result is always Ok
get_console_url(token, r) ==
    ResOk(ParseWithParams(FederationUrl,
             << <<KeyAction, ValLogin>>,
                <<KeyIssuer, ValIssuer>>,
                <<KeyDestination, destination_url(r)>>,
                <<KeySigninToken, token>> >>))

----------------------------------------------------------------------------
(* Credential Extractor *)

EnvOrder == <<"AWS_PROFILE", "AWS_ACCESS_KEY_ID", "AWS_SECRET_ACCESS_KEY", "AWS_SESSION_TOKEN">>

EnvKeys == {EnvOrder[i] : i \in 1..Len(EnvOrder)}

MissingMsg(key) == "Missing " \o key \o " variable"

ProfileMismatchMsg == "Request profile name different than the exported profile name"

\* get_aws_credentials with the accessor's error dropped (map_err in place
\* of context)
get_aws_credentials_drops_source(profile, env_getter) ==
    LET exported == env_getter["AWS_PROFILE"]
        access   == env_getter["AWS_ACCESS_KEY_ID"]
        secret   == env_getter["AWS_SECRET_ACCESS_KEY"]
        session  == env_getter["AWS_SESSION_TOKEN"]
    IN  IF ~exported.ok
        THEN [res   |-> ResErr(Anyhow(MissingMsg("AWS_PROFILE"))),
              reads |-> <<"AWS_PROFILE">>]
        ELSE IF profile /= exported.val
        THEN [res   |-> ResErr(Anyhow(ProfileMismatchMsg)),
              reads |-> <<"AWS_PROFILE">>]
        ELSE IF ~access.ok
        THEN [res   |-> ResErr(Anyhow(MissingMsg("AWS_ACCESS_KEY_ID"))),
              reads |-> <<"AWS_PROFILE", "AWS_ACCESS_KEY_ID">>]
        ELSE IF ~secret.ok
        THEN [res   |-> ResErr(Anyhow(MissingMsg("AWS_SECRET_ACCESS_KEY"))),
              reads |-> <<"AWS_PROFILE", "AWS_ACCESS_KEY_ID", "AWS_SECRET_ACCESS_KEY">>]
        ELSE IF ~session.ok
        THEN [res   |-> ResErr(Anyhow(MissingMsg("AWS_SESSION_TOKEN"))),
              reads |-> EnvOrder]
        ELSE [res   |-> ResOk([access_key_id     |-> access.val,
                               secret_access_key |-> secret.val,
                               session_token     |-> session.val]),
              reads |-> EnvOrder]

\* get_aws_credentials with the profile compared after the credential
\* variables were read
get_aws_credentials_compares_late(profile, env_getter) ==
    LET exported == env_getter["AWS_PROFILE"]
        access   == env_getter["AWS_ACCESS_KEY_ID"]
        secret   == env_getter["AWS_SECRET_ACCESS_KEY"]
        session  == env_getter["AWS_SESSION_TOKEN"]
    IN  IF ~exported.ok
        THEN [res   |-> ResErr(Context(MissingMsg("AWS_PROFILE"), exported.err)),
              reads |-> <<"AWS_PROFILE">>]
        ELSE IF ~access.ok
        THEN [res   |-> ResErr(Context(MissingMsg("AWS_ACCESS_KEY_ID"), access.err)),
              reads |-> <<"AWS_PROFILE", "AWS_ACCESS_KEY_ID">>]
        ELSE IF ~secret.ok
        THEN [res   |-> ResErr(Context(MissingMsg("AWS_SECRET_ACCESS_KEY"), secret.err)),
              reads |-> <<"AWS_PROFILE", "AWS_ACCESS_KEY_ID", "AWS_SECRET_ACCESS_KEY">>]
        ELSE IF ~session.ok
        THEN [res   |-> ResErr(Context(MissingMsg("AWS_SESSION_TOKEN"), session.err)),
              reads |-> EnvOrder]
        ELSE IF profile /= exported.val
        THEN [res   |-> ResErr(Anyhow(ProfileMismatchMsg)),
              reads |-> EnvOrder]
        ELSE [res   |-> ResOk([access_key_id     |-> access.val,
                               secret_access_key |-> secret.val,
                               session_token     |-> session.val]),
              reads |-> EnvOrder]

\* get_aws_credentials with the secret key and the session token exchanged
\* in the result
get_aws_credentials_swapped(profile, env_getter) ==
    LET exported == env_getter["AWS_PROFILE"]
        access   == env_getter["AWS_ACCESS_KEY_ID"]
        secret   == env_getter["AWS_SECRET_ACCESS_KEY"]
        session  == env_getter["AWS_SESSION_TOKEN"]
    IN  IF ~exported.ok
        THEN [res   |-> ResErr(Context(MissingMsg("AWS_PROFILE"), exported.err)),
              reads |-> <<"AWS_PROFILE">>]
        ELSE IF profile /= exported.val
        THEN [res   |-> ResErr(Anyhow(ProfileMismatchMsg)),
              reads |-> <<"AWS_PROFILE">>]
        ELSE IF ~access.ok
        THEN [res   |-> ResErr(Context(MissingMsg("AWS_ACCESS_KEY_ID"), access.err)),
              reads |-> <<"AWS_PROFILE", "AWS_ACCESS_KEY_ID">>]
        ELSE IF ~secret.ok
        THEN [res   |-> ResErr(Context(MissingMsg("AWS_SECRET_ACCESS_KEY"), secret.err)),
              reads |-> <<"AWS_PROFILE", "AWS_ACCESS_KEY_ID", "AWS_SECRET_ACCESS_KEY">>]
        ELSE IF ~session.ok
        THEN [res   |-> ResErr(Context(MissingMsg("AWS_SESSION_TOKEN"), session.err)),
              reads |-> EnvOrder]
        ELSE [res   |-> ResOk([access_key_id     |-> access.val,
                               secret_access_key |-> session.val,
                               session_token     |-> secret.val]),
              reads |-> EnvOrder]

\* get_aws_credentials with the secret key read before the access key
get_aws_credentials_secret_first(profile, env_getter) ==
    LET exported == env_getter["AWS_PROFILE"]
        access   == env_getter["AWS_ACCESS_KEY_ID"]
        secret   == env_getter["AWS_SECRET_ACCESS_KEY"]
        session  == env_getter["AWS_SESSION_TOKEN"]
    IN  IF ~exported.ok
        THEN [res   |-> ResErr(Context(MissingMsg("AWS_PROFILE"), exported.err)),
              reads |-> <<"AWS_PROFILE">>]
        ELSE IF profile /= exported.val
        THEN [res   |-> ResErr(Anyhow(ProfileMismatchMsg)),
              reads |-> <<"AWS_PROFILE">>]
        ELSE IF ~secret.ok
        THEN [res   |-> ResErr(Context(MissingMsg("AWS_SECRET_ACCESS_KEY"), secret.err)),
              reads |-> <<"AWS_PROFILE", "AWS_SECRET_ACCESS_KEY">>]
        ELSE IF ~access.ok
        THEN [res   |-> ResErr(Context(MissingMsg("AWS_ACCESS_KEY_ID"), access.err)),
              reads |-> <<"AWS_PROFILE", "AWS_SECRET_ACCESS_KEY", "AWS_ACCESS_KEY_ID">>]
        ELSE IF ~session.ok
        THEN [res   |-> ResErr(Context(MissingMsg("AWS_SESSION_TOKEN"), session.err)),
              reads |-> <<"AWS_PROFILE", "AWS_SECRET_ACCESS_KEY", "AWS_ACCESS_KEY_ID", "AWS_SESSION_TOKEN">>]
        ELSE [res   |-> ResOk([access_key_id     |-> access.val,
                               secret_access_key |-> secret.val,
                               session_token     |-> session.val]),
              reads |-> <<"AWS_PROFILE", "AWS_SECRET_ACCESS_KEY", "AWS_ACCESS_KEY_ID", "AWS_SESSION_TOKEN">>]

\* env_getter is a function from the variable's name to Ok(value) or
\* Err(message); reads lists the calls made to it, in order
get_aws_credentials(profile, env_getter) ==
    LET exported == env_getter["AWS_PROFILE"]
        access   == env_getter["AWS_ACCESS_KEY_ID"]
        secret   == env_getter["AWS_SECRET_ACCESS_KEY"]
        session  == env_getter["AWS_SESSION_TOKEN"]
    IN  IF ~exported.ok
        THEN [res   |-> ResErr(Context(MissingMsg("AWS_PROFILE"), exported.err)),
              reads |-> <<"AWS_PROFILE">>]
        ELSE IF profile /= exported.val
        THEN [res   |-> ResErr(Anyhow(ProfileMismatchMsg)),
              reads |-> <<"AWS_PROFILE">>]
        ELSE IF ~access.ok
        THEN [res   |-> ResErr(Context(MissingMsg("AWS_ACCESS_KEY_ID"), access.err)),
              reads |-> <<"AWS_PROFILE", "AWS_ACCESS_KEY_ID">>]
        ELSE IF ~secret.ok
        THEN [res   |-> ResErr(Context(MissingMsg("AWS_SECRET_ACCESS_KEY"), secret.err)),
              reads |-> <<"AWS_PROFILE", "AWS_ACCESS_KEY_ID", "AWS_SECRET_ACCESS_KEY">>]
        ELSE IF ~session.ok
        THEN [res   |-> ResErr(Context(MissingMsg("AWS_SESSION_TOKEN"), session.err)),
              reads |-> EnvOrder]
        ELSE [res   |-> ResOk([access_key_id     |-> access.val,
                               secret_access_key |-> secret.val,
                               session_token     |-> session.val]),
              reads |-> EnvOrder]

----------------------------------------------------------------------------
(* Token Exchanger *)

\* StatusCode::is_success
is_success(status) == status >= 200 /\ status < 300

\* #[serde(alias = "SigninToken")] signin_token: both names fill the field
SigninTokenNames == {"signin_token", "SigninToken"}

RECURSIVE VisitMap(_, _)
\* derive(Deserialize) on a JSON object: members are visited in order, a
\* second member for the field is a duplicate, other names are ignored
VisitMap(members, field0) ==
    IF members = <<>>
    THEN IF field0 = None THEN ResErr("missing field signin_token")
         ELSE ResOk(field0[1])
    ELSE LET m == Head(members)
         IN  IF m.key \in SigninTokenNames
             THEN IF field0 /= None THEN ResErr("duplicate field signin_token")
                  ELSE IF ~m.value.string THEN ResErr("invalid type")
                  ELSE VisitMap(Tail(members), Some(m.value.s))
             ELSE VisitMap(Tail(members), field0)

\* derive(Deserialize) on a JSON array: the fields in declaration order
VisitSeq(elems) ==
    IF elems = <<>> THEN ResErr("invalid length 0")
    ELSE IF ~elems[1].string THEN ResErr("invalid type")
    ELSE IF Len(elems) > 1 THEN ResErr("trailing characters")
    ELSE ResOk(elems[1].s)

\* res.json::<GetSigninTokenResponse>()
GetSigninTokenResponse(body) ==
    IF body.kind = "object" THEN VisitMap(body.items, None)
    ELSE IF body.kind = "array" THEN VisitSeq(body.items)
    ELSE ResErr("expected struct GetSigninTokenResponse")

\* Serialize for Credentials: the fields under their wire names
SerializeCredentials(c) ==
    [sessionId    |-> c.access_key_id,
     sessionKey   |-> c.secret_access_key,
     sessionToken |-> c.session_token]

\* get_signin_token without the test of the status: the body of any response
\* is parsed
get_signin_token_no_status_check(creds, r, outcome) ==
    LET request == [url    |-> Https \o r \o SigninSuffix,
                    Action |-> "getSigninToken",
                    Session |-> SerializeCredentials(creds)]
        body == GetSigninTokenResponse(outcome.body)
    IN  [request |-> request,
         res |-> IF ~outcome.received
                 THEN ResErr(Context("The request failed", outcome.cause))
                 ELSE IF body.ok THEN ResOk(body.val)
                 ELSE ResErr(Context("Failed to deserialize the response", body.err))]

\* outcome is what send() meets: no response at all, or a response
get_signin_token(creds, r, outcome) ==
    LET request == [url    |-> Https \o r \o SigninSuffix,
                    Action |-> "getSigninToken",
                    Session |-> SerializeCredentials(creds)]
        body == GetSigninTokenResponse(outcome.body)
    IN  [request |-> request,
         res |-> IF ~outcome.received
                 THEN ResErr(Context("The request failed", outcome.cause))
                 ELSE IF is_success(outcome.status)
                 THEN IF body.ok THEN ResOk(body.val)
                      ELSE ResErr(Context("Failed to deserialize the response", body.err))
                 ELSE ResErr(Anyhow("Request failed"))]

----------------------------------------------------------------------------
(* Inputs *)

ProfileNames == {"foo", "test_profile"}

RegionUsEast1 == <<"u", "s", "-", "e", "a", "s", "t", "-", "1">>

RegionEuWest1 == <<"e", "u", "-", "w", "e", "s", "t", "-", "1">>

Regions == {RegionUsEast1, RegionEuWest1}

\* what env::var answers for an unset variable, and what the test's fake answers
EnvErrors == {"environment variable not found", "test_error"}

ProfileEnvValues == {ResOk(p) : p \in ProfileNames} \cup {ResErr(e) : e \in EnvErrors}

\* a variable that is unset, set to the empty string, or set
CredentialEnvValues == {ResErr("environment variable not found"), ResOk(""), ResOk("k"), ResOk("s")}

Environments ==
    {e \in [EnvKeys -> ProfileEnvValues \cup CredentialEnvValues] :
        /\ e["AWS_PROFILE"] \in ProfileEnvValues
        /\ \A k \in EnvKeys \ {"AWS_PROFILE"} : e[k] \in CredentialEnvValues}

TokenAbc == <<"a", "b", "c">>

TokenReserved == <<"a", "&", "b", "=", "c", " ", "+", "%">>

TokenTOK123 == <<"T", "O", "K", "1", "2", "3">>

JsonString(s) == [string |-> TRUE, s |-> s]

\* a JSON value that is not a string (a number, null, an object, ...)
JsonOther == [string |-> FALSE, s |-> <<>>]

JsonValues == {JsonString(TokenAbc), JsonString(TokenReserved), JsonOther}

JsonMembers == [key : SigninTokenNames \cup {"Expires"}, value : JsonValues]

SeqsUpTo(S, n) == UNION {[1..k -> S] : k \in 0..n}

Bodies ==
    {[kind |-> "object", items |-> m] : m \in SeqsUpTo(JsonMembers, MaxBodyFields)}
    \cup {[kind |-> "array", items |-> a] : a \in SeqsUpTo(JsonValues, MaxBodyFields)}
    \cup {[kind |-> "other", items |-> <<>>]}

StatusCodes == {199, 200, 299, 300, 403}

SendOutcomes ==
    {[received |-> FALSE, cause |-> "error sending request", status |-> 0,
      body |-> [kind |-> "other", items |-> <<>>]]}
    \cup {[received |-> TRUE, cause |-> "", status |-> st, body |-> b] :
             st \in StatusCodes, b \in Bodies}

\* open::that: the browser is started, or the OS reports a failure
OpenOutcomes == {ResOk("opened"), ResErr("launcher failed")}

----------------------------------------------------------------------------
(* The pipeline *)

Init ==
    /\ pc = "Start"
    /\ env \in Environments
    /\ profile_name \in ProfileNames
    /\ region \in Regions
    /\ credentials = None
    /\ signin_token = None
    /\ console_url = None
    /\ error = None
    /\ env_reads = <<>>
    /\ requests = <<>>
    /\ response = None
    /\ opened = <<>>
    /\ launched = FALSE
    /\ stages = <<>>

\* main: the arguments are parsed and run is called
Main ==
    /\ pc = "Start"
    /\ pc' = "ExtractCredentials"
    /\ UNCHANGED <<env, profile_name, region, credentials, signin_token,
                   console_url, error, env_reads, requests, response, opened,
                   launched, stages>>

\* run: let credentials = get_aws_credentials(&profile_name, env_getter)?
ExtractCredentials ==
    /\ pc = "ExtractCredentials"
    /\ LET r == get_aws_credentials(profile_name, env)
       IN  /\ env_reads' = env_reads \o r.reads
           /\ IF r.res.ok
              THEN /\ credentials' = Some(r.res.val)
                   /\ pc' = "ExchangeToken"
                   /\ error' = error
              ELSE /\ credentials' = credentials
                   /\ pc' = "Error"
                   /\ error' = Some(r.res.err)
    /\ stages' = Append(stages, "ExtractCredentials")
    /\ UNCHANGED <<env, profile_name, region, signin_token, console_url,
                   requests, response, opened, launched>>

\* ExchangeToken with a failure replaced by an empty token
\* (unwrap_or_default in place of ?)
ExchangeToken_unwrap_or_default ==
    /\ pc = "ExchangeToken"
    /\ \E outcome \in SendOutcomes :
          LET r == get_signin_token(credentials[1], region, outcome)
          IN  /\ requests' = Append(requests, r.request)
              /\ response' = IF outcome.received
                             THEN Some([status |-> outcome.status, body |-> outcome.body])
                             ELSE None
              /\ signin_token' = IF r.res.ok THEN Some(r.res.val) ELSE Some(<<>>)
              /\ pc' = "BuildUrl"
              /\ error' = error
    /\ stages' = Append(stages, "ExchangeToken")
    /\ UNCHANGED <<env, profile_name, region, credentials, console_url,
                   env_reads, opened, launched>>

\* ExchangeToken with a failed request sent once more
ExchangeToken_retry ==
    /\ pc = "ExchangeToken"
    /\ \E outcome \in SendOutcomes :
          LET r == get_signin_token(credentials[1], region, outcome)
          IN  /\ requests' = IF r.res.ok THEN Append(requests, r.request)
                             ELSE requests \o <<r.request, r.request>>
              /\ response' = IF outcome.received
                             THEN Some([status |-> outcome.status, body |-> outcome.body])
                             ELSE None
              /\ IF r.res.ok
                 THEN /\ signin_token' = Some(r.res.val)
                      /\ pc' = "BuildUrl"
                      /\ error' = error
                 ELSE /\ signin_token' = signin_token
                      /\ pc' = "Error"
                      /\ error' = Some(r.res.err)
    /\ stages' = Append(stages, "ExchangeToken")
    /\ UNCHANGED <<env, profile_name, region, credentials, console_url,
                   env_reads, opened, launched>>

\* run: let signin_token = get_signin_token(&credentials, &region)?
ExchangeToken ==
    /\ pc = "ExchangeToken"
    /\ \E outcome \in SendOutcomes :
          LET r == get_signin_token(credentials[1], region, outcome)
          IN  /\ requests' = Append(requests, r.request)
              /\ response' = IF outcome.received
                             THEN Some([status |-> outcome.status, body |-> outcome.body])
                             ELSE None
              /\ IF r.res.ok
                 THEN /\ signin_token' = Some(r.res.val)
                      /\ pc' = "BuildUrl"
                      /\ error' = error
                 ELSE /\ signin_token' = signin_token
                      /\ pc' = "Error"
                      /\ error' = Some(r.res.err)
    /\ stages' = Append(stages, "ExchangeToken")
    /\ UNCHANGED <<env, profile_name, region, credentials, console_url,
                   env_reads, opened, launched>>

\* run: let console_url = get_console_url(&signin_token, &region)?
BuildUrl ==
    /\ pc = "BuildUrl"
    /\ LET r == get_console_url(signin_token[1], region)
       IN  IF r.ok
           THEN /\ console_url' = Some(r.val)
                /\ pc' = "Launch"
                /\ error' = error
           ELSE /\ console_url' = console_url
                /\ pc' = "Error"
                /\ error' = Some(Context("Failed to build the URL", r.err))
    /\ stages' = Append(stages, "BuildUrl")
    /\ UNCHANGED <<env, profile_name, region, credentials, signin_token,
                   env_reads, requests, response, opened, launched>>

\* Launch with the result of open::that ignored
Launch_ignores_result ==
    /\ pc = "Launch"
    /\ \E outcome \in OpenOutcomes :
          /\ opened' = Append(opened, console_url[1])
          /\ launched' = outcome.ok
          /\ pc' = "Done"
          /\ error' = error
    /\ stages' = Append(stages, "Launch")
    /\ UNCHANGED <<env, profile_name, region, credentials, signin_token,
                   console_url, env_reads, requests, response>>

\* run: open::that(console_url)?
Launch ==
    /\ pc = "Launch"
    /\ \E outcome \in OpenOutcomes :
          /\ opened' = Append(opened, console_url[1])
          /\ launched' = outcome.ok
          /\ IF outcome.ok
             THEN pc' = "Done" /\ error' = error
             ELSE pc' = "Error" /\ error' = Some(Anyhow(outcome.err))
    /\ stages' = Append(stages, "Launch")
    /\ UNCHANGED <<env, profile_name, region, credentials, signin_token,
                   console_url, env_reads, requests, response>>

Next == Main \/ ExtractCredentials \/ ExchangeToken \/ BuildUrl \/ Launch

Spec == Init /\ [][Next]_vars

----------------------------------------------------------------------------
(* The URL builder on its own: get_console_url over all short tokens *)

TokenAlphabet == {"a", "Z", "9", "-", "_", "*", ".", "&", "=", "+", " ", "%", "/", "?", "#", ":"}

UrlTokens == SeqsUpTo(TokenAlphabet, MaxTokenLen) \cup {TokenTOK123, TokenAbc, TokenReserved}

UrlRegions == Regions \cup {<<"x", "&", "y", " ", "z">>}

UrlEnv == [k \in EnvKeys |-> IF k = "AWS_PROFILE" THEN ResOk("foo") ELSE ResOk("k")]

UrlOutcome(t) ==
    [received |-> TRUE, cause |-> "", status |-> 200,
     body |-> [kind |-> "object",
               items |-> <<[key |-> "SigninToken", value |-> JsonString(t)]>>]]

InitUrl ==
    /\ pc = "BuildUrl"
    /\ env = UrlEnv
    /\ profile_name = "foo"
    /\ region \in UrlRegions
    /\ credentials = Some(get_aws_credentials("foo", UrlEnv).res.val)
    /\ \E t \in UrlTokens :
          /\ signin_token = Some(t)
          /\ response = Some([status |-> 200, body |-> UrlOutcome(t).body])
          /\ requests = <<get_signin_token(credentials[1], region, UrlOutcome(t)).request>>
    /\ console_url = None
    /\ error = None
    /\ env_reads = EnvOrder
    /\ opened = <<>>
    /\ launched = FALSE
    /\ stages = <<"ExtractCredentials", "ExchangeToken">>

NextUrl == BuildUrl

SpecUrl == InitUrl /\ [][NextUrl]_vars

----------------------------------------------------------------------------
(* Vocabulary of the properties *)

IsPrefix(p, s) == Len(p) <= Len(s) /\ SubSeq(s, 1, Len(p)) = p

IsSuffix(p, s) == Len(p) <= Len(s) /\ SubSeq(s, Len(s) - Len(p) + 1, Len(s)) = p

RECURSIVE SplitOn(_, _)
\* the pieces of s between the occurrences of the character c
SplitOn(s, c) ==
    IF \A i \in 1..Len(s) : s[i] /= c THEN <<s>>
    ELSE LET i == CHOOSE j \in 1..Len(s) : s[j] = c /\ \A k \in 1..(j - 1) : s[k] /= c
         IN  <<SubSeq(s, 1, i - 1)>> \o SplitOn(SubSeq(s, i + 1, Len(s)), c)

\* the character of a byte
CharOf(b) == Ascii[b - 31]

HexValue(h) == (CHOOSE i \in 1..16 : HexDigits[i] = h) - 1

IsHex(h) == \E i \in 1..16 : HexDigits[i] = h

RECURSIVE QueryDecode(_)
\* what a reader of the query string recovers from an encoded value
QueryDecode(s) ==
    IF s = <<>> THEN <<>>
    ELSE IF Head(s) = "+" THEN <<" ">> \o QueryDecode(Tail(s))
    ELSE IF Head(s) = "%" /\ Len(s) >= 3 /\ IsHex(s[2]) /\ IsHex(s[3])
    THEN <<CharOf(16 * HexValue(s[2]) + HexValue(s[3]))>> \o QueryDecode(SubSeq(s, 4, Len(s)))
    ELSE <<Head(s)>> \o QueryDecode(Tail(s))

\* an encoded value: letters, digits, * - . _, "+" for a space, and %XX
IsEncoded(s) ==
    \A i \in 1..Len(s) :
        \/ s[i] \in Digits \cup UpperCase \cup LowerCase \cup {"*", "-", ".", "_", "+"}
        \/ s[i] = "%" /\ i + 2 <= Len(s) /\ IsHex(s[i + 1]) /\ IsHex(s[i + 2])

StageOrder == <<"ExtractCredentials", "ExchangeToken", "BuildUrl", "Launch">>

StageIndex(stage) == CHOOSE i \in 1..4 : StageOrder[i] = stage

Extracted == Len(stages) >= 1

Exchanged == Len(stages) >= 2

NonSuccess(status) == status < 200 \/ status > 299

----------------------------------------------------------------------------
(* C1 *)

\* C1: the stages run in the order ExtractCredentials, ExchangeToken,
\* BuildUrl, Launch; a stage that fails leaves the pipeline in Error, where
\* nothing runs any more; the launcher is invoked only after extraction,
\* exchange and URL building have succeeded, and never after a non-success
\* HTTP status.
C1_StagesInOrder ==
    /\ IsPrefix(stages, StageOrder)
    /\ pc \in {"ExtractCredentials", "ExchangeToken", "BuildUrl", "Launch"} =>
          /\ error = None
          /\ stages = SubSeq(StageOrder, 1, StageIndex(pc) - 1)
    /\ pc = "Start" => stages = <<>> /\ error = None
    /\ pc = "Done" => stages = StageOrder /\ error = None
    /\ error /= None <=> pc = "Error"
    /\ pc \in {"Error", "Done"} => ~ENABLED Next
    /\ pc = "Error" /\ Len(stages) = 1 => credentials = None
    /\ pc = "Error" /\ Len(stages) = 2 => signin_token = None
    /\ opened /= <<>> =>
          /\ stages = StageOrder
          /\ credentials /= None /\ signin_token /= None /\ console_url /= None
          /\ response /= None /\ ~NonSuccess(response[1].status)
    /\ response /= None /\ NonSuccess(response[1].status) =>
          /\ pc = "Error"
          /\ stages = <<"ExtractCredentials", "ExchangeToken">>
          /\ console_url = None /\ opened = <<>> /\ ~launched

\* the exchange answered 403 and the run is over without a launch
C1_Witness ==
    /\ pc = "Error"
    /\ response /= None /\ response[1].status = 403
    /\ stages = <<"ExtractCredentials", "ExchangeToken">>

----------------------------------------------------------------------------
(* C2 *)

\* C2: when the environment accessor fails for AWS_PROFILE, extraction fails
\* with "Missing AWS_PROFILE variable" and the accessor's error is the source
\* of that error, for every claimed profile and every setting of the other
\* variables.
C2_MissingProfile ==
    Extracted /\ ~env["AWS_PROFILE"].ok =>
        /\ pc = "Error"
        /\ credentials = None
        /\ error = Some([msg |-> "Missing AWS_PROFILE variable",
                         source |-> Some(env["AWS_PROFILE"].err)])

\* the case of the test: the accessor answers test_error for AWS_PROFILE
C2_Witness ==
    /\ Extracted
    /\ profile_name = "test_profile"
    /\ env["AWS_PROFILE"] = ResErr("test_error")
    /\ env["AWS_ACCESS_KEY_ID"].ok
    /\ error /= None /\ error[1].source = Some("test_error")

----------------------------------------------------------------------------
(* C3 *)

\* C3: when AWS_PROFILE is set to a name other than the claimed profile,
\* extraction fails with the profile mismatch error, whatever the other
\* three variables are.
C3_ProfileMismatch ==
    Extracted /\ env["AWS_PROFILE"].ok /\ env["AWS_PROFILE"].val /= profile_name =>
        /\ pc = "Error"
        /\ credentials = None
        /\ error = Some([msg |-> "Request profile name different than the exported profile name",
                         source |-> None])

\* a mismatch while the access key is missing as well
C3_Witness ==
    /\ Extracted
    /\ env["AWS_PROFILE"] = ResOk("foo") /\ profile_name = "test_profile"
    /\ ~env["AWS_ACCESS_KEY_ID"].ok
    /\ pc = "Error"

----------------------------------------------------------------------------
(* C4 *)

\* C4: when AWS_PROFILE equals the claimed profile and the three credential
\* variables are set to k, s and t, extraction succeeds with
\* Credentials{access_key_id: k, secret_access_key: s, session_token: t}.
C4_CredentialsFromEnv ==
    /\ Extracted
    /\ env["AWS_PROFILE"].ok /\ env["AWS_PROFILE"].val = profile_name
    /\ env["AWS_ACCESS_KEY_ID"].ok
    /\ env["AWS_SECRET_ACCESS_KEY"].ok
    /\ env["AWS_SESSION_TOKEN"].ok
    => /\ credentials = Some([access_key_id     |-> env["AWS_ACCESS_KEY_ID"].val,
                              secret_access_key |-> env["AWS_SECRET_ACCESS_KEY"].val,
                              session_token     |-> env["AWS_SESSION_TOKEN"].val])
       /\ Len(stages) = 1 => pc = "ExchangeToken" /\ error = None

\* extraction has just succeeded on three variables that are not all equal
C4_Witness ==
    /\ pc = "ExchangeToken"
    /\ credentials = Some([access_key_id |-> "k", secret_access_key |-> "s",
                           session_token |-> "k"])

----------------------------------------------------------------------------
(* C5 *)

\* the members of a JSON object that name the token field
TokenMembers(body) ==
    {i \in 1..Len(body.items) : body.items[i].key \in {"SigninToken", "signin_token"}}

\* a JSON object with exactly one token member, a string; or a JSON array of
\* exactly one string
Accepted(body) ==
    IF body.kind = "object"
    THEN /\ Cardinality(TokenMembers(body)) = 1
         /\ \A i \in TokenMembers(body) : body.items[i].value.string
    ELSE body.kind = "array" /\ Len(body.items) = 1 /\ body.items[1].string

TokenIn(body) ==
    IF body.kind = "object"
    THEN body.items[CHOOSE i \in TokenMembers(body) : TRUE].value.s
    ELSE body.items[1].s

\* the strings a JSON object carries under the name SigninToken
Carried(body) ==
    IF body.kind = "object"
    THEN {body.items[i].value.s :
             i \in {j \in 1..Len(body.items) :
                       body.items[j].key = "SigninToken" /\ body.items[j].value.string}}
    ELSE {}

\* C5 as stated: a non-success status yields "Request failed"; a success
\* status with a body carrying a SigninToken string yields that string; no
\* token without a success status.
C5_Original ==
    Exchanged /\ response /= None =>
        /\ NonSuccess(response[1].status) =>
              signin_token = None /\ error = Some([msg |-> "Request failed", source |-> None])
        /\ ~NonSuccess(response[1].status) /\ Carried(response[1].body) /= {} =>
              signin_token /= None /\ signin_token[1] \in Carried(response[1].body)
        /\ signin_token /= None => ~NonSuccess(response[1].status)

\* C5 (amended): a non-success status yields "Request failed"; a success
\* status yields a token exactly when the body is a JSON object with exactly
\* one member named SigninToken or signin_token whose value is a string, or a
\* JSON array of one string, and the token is that string; every other body
\* under a success status yields "Failed to deserialize the response"; no
\* response at all yields "The request failed".
C5_ExchangeResult ==
    Exchanged =>
        IF response = None
        THEN /\ signin_token = None
             /\ error /= None /\ error[1].msg = "The request failed"
        ELSE /\ NonSuccess(response[1].status) =>
                  signin_token = None /\ error = Some([msg |-> "Request failed", source |-> None])
             /\ ~NonSuccess(response[1].status) /\ Accepted(response[1].body) =>
                  signin_token = Some(TokenIn(response[1].body))
             /\ ~NonSuccess(response[1].status) /\ ~Accepted(response[1].body) =>
                  /\ signin_token = None
                  /\ error /= None /\ error[1].msg = "Failed to deserialize the response"

\* HTTP 200 with the body {"SigninToken":"abc"} gave the token abc
C5_Witness ==
    /\ Exchanged
    /\ response = Some([status |-> 200,
                        body |-> [kind |-> "object",
                                  items |-> <<[key |-> "SigninToken",
                                               value |-> [string |-> TRUE, s |-> <<"a", "b", "c">>]]>>]])
    /\ signin_token = Some(<<"a", "b", "c">>)

----------------------------------------------------------------------------
(* C6 *)

\* C6 as stated: a run ends with the browser launched on the console URL, or
\* in Error having made no outbound network call and no browser launch.
C6_Original ==
    /\ pc = "Done" => launched /\ opened = <<console_url[1]>>
    /\ pc = "Error" => requests = <<>> /\ ~launched

\* C6 (amended): a run ends in Done with the browser launched on the console
\* URL built from the received token, or in Error with no browser launched;
\* a run that fails in extraction has made no outbound network call and has
\* not invoked the launcher, a run that fails later has made no more than
\* the one token exchange call.
C6_NoPartialSuccess ==
    /\ pc = "Done" =>
          /\ launched
          /\ signin_token /= None /\ console_url /= None
          /\ opened = <<console_url[1]>>
          /\ IsPrefix(<<"h", "t", "t", "p", "s", ":", "/", "/", "s", "i", "g", "n", "i", "n", ".">>, console_url[1])
          /\ Len(SplitOn(console_url[1], "=")) = 5
          /\ QueryDecode(SplitOn(console_url[1], "=")[5]) = signin_token[1]
          /\ response /= None /\ signin_token[1] = TokenIn(response[1].body)
          /\ Len(requests) = 1
    /\ launched => pc = "Done"
    /\ pc = "Error" =>
          /\ ~launched
          /\ Len(requests) <= 1
          /\ Len(stages) = 1 => requests = <<>> /\ opened = <<>>
          /\ Len(stages) < 4 => opened = <<>>

\* the launcher failed: the run is in Error after one network call
C6_Witness ==
    /\ pc = "Error"
    /\ stages = StageOrder
    /\ Len(requests) = 1 /\ Len(opened) = 1 /\ ~launched

----------------------------------------------------------------------------
(* C7 *)

ReadOrder == <<"AWS_PROFILE", "AWS_ACCESS_KEY_ID", "AWS_SECRET_ACCESS_KEY", "AWS_SESSION_TOKEN">>

MissingNames == <<"Missing AWS_PROFILE variable", "Missing AWS_ACCESS_KEY_ID variable", "Missing AWS_SECRET_ACCESS_KEY variable", "Missing AWS_SESSION_TOKEN variable">>

\* reading the i-th variable ends the extraction
StopsAt(i) ==
    \/ ~env[ReadOrder[i]].ok
    \/ i = 1 /\ env[ReadOrder[1]].val /= profile_name

FirstStop ==
    IF \A i \in 1..4 : ~StopsAt(i) THEN 4
    ELSE CHOOSE i \in 1..4 : StopsAt(i) /\ \A j \in 1..(i - 1) : ~StopsAt(j)

\* C7: extraction reads AWS_PROFILE, AWS_ACCESS_KEY_ID, AWS_SECRET_ACCESS_KEY,
\* AWS_SESSION_TOKEN in that order and stops at the first failure: the error
\* names the first missing variable and no later variable is read.
C7_ReadOrder ==
    /\ ~Extracted => env_reads = <<>>
    /\ Extracted =>
          /\ env_reads = SubSeq(ReadOrder, 1, FirstStop)
          /\ ~env[ReadOrder[FirstStop]].ok =>
                /\ pc = "Error" /\ Len(stages) = 1
                /\ error = Some([msg |-> MissingNames[FirstStop],
                                 source |-> Some(env[ReadOrder[FirstStop]].err)])

\* the secret access key and the session token are both missing
C7_Witness ==
    /\ Extracted
    /\ env["AWS_ACCESS_KEY_ID"].ok
    /\ ~env["AWS_SECRET_ACCESS_KEY"].ok /\ ~env["AWS_SESSION_TOKEN"].ok
    /\ env_reads = <<"AWS_PROFILE", "AWS_ACCESS_KEY_ID", "AWS_SECRET_ACCESS_KEY">>
    /\ error /= None /\ error[1].msg = "Missing AWS_SECRET_ACCESS_KEY variable"

----------------------------------------------------------------------------
(* C8 *)

\* C8: a run issues at most one outbound network call, only after the
\* credentials were extracted, and a failed exchange (no response, a
\* non-success status, an unparseable body) ends the run without a second
\* request.
C8_SingleRequest ==
    /\ Len(requests) <= 1
    /\ requests /= <<>> =>
          /\ Exchanged
          /\ credentials /= None
          /\ Len(env_reads) = 4
          /\ requests[1].Session = [sessionId    |-> credentials[1].access_key_id,
                                    sessionKey   |-> credentials[1].secret_access_key,
                                    sessionToken |-> credentials[1].session_token]
    /\ Exchanged => Len(requests) = 1
    /\ Exchanged /\ signin_token = None => pc = "Error" /\ ~ENABLED Next

\* the request met a transport failure and the run is over
C8_Witness ==
    /\ Exchanged
    /\ response = None
    /\ pc = "Error"
    /\ Len(requests) = 1

----------------------------------------------------------------------------
(* C9 *)

\* C9: every Credentials value the extractor produces has its three fields
\* non-empty.
C9_NonEmptyCredentials ==
    credentials /= None =>
        /\ credentials[1].access_key_id /= ""
        /\ credentials[1].secret_access_key /= ""
        /\ credentials[1].session_token /= ""

----------------------------------------------------------------------------
(* C10 *)

ScenarioUrl == <<"h", "t", "t", "p", "s", ":", "/", "/", "s", "i", "g", "n", "i", "n", ".", "a", "w", "s", ".", "a", "m", "a", "z", "o", "n", ".", "c", "o", "m", "/", "f", "e", "d", "e", "r", "a", "t", "i", "o", "n", "?", "A", "c", "t", "i", "o", "n", "=", "l", "o", "g", "i", "n", "&", "I", "s", "s", "u", "e", "r", "=", "w", "o", "j", "t", "e", "k", "s", "-", "a", "p", "p", "&", "D", "e", "s", "t", "i", "n", "a", "t", "i", "o", "n", "=", "h", "t", "t", "p", "s", "%", "3", "A", "%", "2", "F", "%", "2", "F", "u", "s", "-", "e", "a", "s", "t", "-", "1", ".", "c", "o", "n", "s", "o", "l", "e", ".", "a", "w", "s", ".", "a", "m", "a", "z", "o", "n", ".", "c", "o", "m", "%", "2", "F", "c", "o", "n", "s", "o", "l", "e", "%", "2", "F", "h", "o", "m", "e", "%", "3", "F", "r", "e", "g", "i", "o", "n", "%", "3", "D", "u", "s", "-", "e", "a", "s", "t", "-", "1", "&", "S", "i", "g", "n", "i", "n", "T", "o", "k", "e", "n", "=", "T", "O", "K", "1", "2", "3">>

\* C10: the console URL is https://signin.aws.amazon.com/federation followed
\* by exactly the query parameters Action=login, Issuer=wojteks-app,
\* Destination and SigninToken in that order; the Destination and token
\* values are encoded so that no reserved character appears in them and
\* decode to https://{region}.console.aws.amazon.com/console/home?region={region}
\* and to the token; for us-east-1 and TOK123 the URL is the expected text.
C10_ConsoleUrl ==
    console_url /= None =>
        LET url    == console_url[1]
            halves == SplitOn(url, "?")
            fields == SplitOn(halves[2], "&")
            kv(i)  == SplitOn(fields[i], "=")
        IN  /\ Len(halves) = 2
            /\ halves[1] = SubSeq(ScenarioUrl, 1, 40)
            /\ Len(fields) = 4
            /\ \A i \in 1..4 : Len(kv(i)) = 2 /\ IsEncoded(kv(i)[2])
            /\ kv(1) = <<<<"A", "c", "t", "i", "o", "n">>, <<"l", "o", "g", "i", "n">>>>
            /\ kv(2) = <<<<"I", "s", "s", "u", "e", "r">>, <<"w", "o", "j", "t", "e", "k", "s", "-", "a", "p", "p">>>>
            /\ kv(3)[1] = <<"D", "e", "s", "t", "i", "n", "a", "t", "i", "o", "n">>
            /\ QueryDecode(kv(3)[2]) =
                  <<"h", "t", "t", "p", "s", ":", "/", "/">> \o region
                  \o <<".", "c", "o", "n", "s", "o", "l", "e", ".", "a", "w", "s", ".", "a", "m", "a", "z", "o", "n", ".", "c", "o", "m", "/", "c", "o", "n", "s", "o", "l", "e", "/", "h", "o", "m", "e", "?", "r", "e", "g", "i", "o", "n", "=">>
                  \o region
            /\ kv(4)[1] = <<"S", "i", "g", "n", "i", "n", "T", "o", "k", "e", "n">>
            /\ QueryDecode(kv(4)[2]) = signin_token[1]
            /\ region = <<"u", "s", "-", "e", "a", "s", "t", "-", "1">>
               /\ signin_token[1] = <<"T", "O", "K", "1", "2", "3">>
               => url = ScenarioUrl

\* a URL was built from a token made of reserved characters
C10_Witness ==
    /\ console_url /= None
    /\ signin_token = Some(<<"&", "=">>)
    /\ region = <<"u", "s", "-", "e", "a", "s", "t", "-", "1">>
    /\ IsSuffix(<<"S", "i", "g", "n", "i", "n", "T", "o", "k", "e", "n", "=", "%", "2", "6", "%", "3", "D">>, console_url[1])

====
